---- MODULE Spec2Model ----
(***************************************************************************)
(* A model of norad's glyph module (src/src/glyph/mod.rs): the Glyph       *)
(* object graph, the load-time redistribution of public.objectLibs         *)
(* (Glyph::fill_in_libs), the save-time collection of sub-object libs      *)
(* (Glyph::libs_to_object_libs), Glyph::save, the methods of the           *)
(* sub-objects (lib, lib_mut, replace_lib, take_lib, replace_identifier),  *)
(* Contour::is_closed and default_file_name_for_glyph_name.                *)
(*                                                                         *)
(* Option<T> is modelled as a sequence of length at most one: None is the  *)
(* empty sequence and Some(x) is <<x>>.  A plist Dictionary is modelled as *)
(* the sequence of its entries [key, value] in iteration order, with       *)
(* pairwise distinct keys.  A plist Value is a record with a field kind.   *)
(***************************************************************************)
EXTENDS Integers, Sequences, FiniteSets, TLC

VARIABLES
    glyph,   \* the in-memory Glyph
    old,     \* the Glyph as it was before the last operation
    op,      \* the last operation performed on the glyph
    result,  \* how that operation ended: Ok, the error returned, or panic
    plist,   \* Option: the Plist that operation returned, if it returns one
    disk,    \* Option: the data std::fs::write stored at the save path
    args,    \* the inputs of the last operation besides the glyph
    output,  \* what the operation returned, when that is no Plist
    contents \* the glyph names given a file name: [name, file_name] per glyph

vars == <<glyph, old, op, result, plist, disk, args, output, contents>>

----------------------------------------------------------------------------
(* Option<T> *)

None == << >>

Some(x) == <<x>>

IsSome(o) == Len(o) = 1

Unwrap(o) == o[1]

\* The inputs of an operation that takes none besides the glyph: path is the
\* place of a sub-object in the glyph, lib and identifier are Options, name
\* is a glyph name.
NoArgs == [path |-> << >>, lib |-> None, identifier |-> None, name |-> << >>]

----------------------------------------------------------------------------
(* plist::Value and plist::Dictionary (the Plist alias) *)

PUBLIC_OBJECT_LIBS_KEY == "public.objectLibs"

StringValue(s) == [kind |-> "String", str |-> s]

DictionaryValue(d) == [kind |-> "Dictionary", dict |-> d]

\* Value::into_dictionary: Some(dictionary) for a dictionary, None otherwise.
IntoDictionary(v) == IF v.kind = "Dictionary" THEN Some(v.dict) ELSE None

Entry(k, v) == [key |-> k, value |-> v]

Keys(d) == {d[i].key : i \in DOMAIN d}

ContainsKey(d, k) == k \in Keys(d)

IndexOfKey(d, k) == CHOOSE i \in DOMAIN d : d[i].key = k

Get(d, k) == IF ContainsKey(d, k) THEN Some(d[IndexOfKey(d, k)].value) ELSE None

\* Dictionary::insert: the value of a key already present is replaced in
\* place, a new key is appended.
Insert(d, k, v) ==
    IF ContainsKey(d, k)
    THEN [d EXCEPT ![IndexOfKey(d, k)] = Entry(k, v)]
    ELSE Append(d, Entry(k, v))

\* Dictionary::remove: returns the value removed (None when the key is
\* absent) and the dictionary without the key; the last entry takes the
\* place of the one removed.
Remove(d, k) ==
    IF ~ContainsKey(d, k)
    THEN [dict |-> d, value |-> None]
    ELSE LET i == IndexOfKey(d, k)
             n == Len(d)
         IN [dict  |-> [j \in 1..(n - 1) |-> IF j = i THEN d[n] ELSE d[j]],
             value |-> Some(d[i].value)]

----------------------------------------------------------------------------
(* Sub-objects: Anchor, Guideline, Contour, ContourPoint, Component.  Each  *)
(* is a record with the private fields identifier: Option<Identifier> and  *)
(* lib: Option<Plist>; a Contour also has its points.                      *)

\* Identifier::from_uuidv4() returns one of these.
Uuids == {"uuid-1", "uuid-2"}

\* anchor.identifier().map(Identifier::as_str) == Some(&key)
Matches(obj, key) == obj.identifier = Some(key)

\* Anchor::replace_lib generating an identifier on every call.
AnchorReplaceLibFreshIdentifier(anchor, lib, uuid) ==
    [object   |-> [anchor EXCEPT !.identifier = Some(uuid), !.lib = Some(lib)],
     returned |-> anchor.lib]

\* Anchor::replace_lib: the object afterwards, and the lib returned.
AnchorReplaceLib(anchor, lib, uuid) ==
    [object   |-> [anchor EXCEPT
                     !.identifier = IF anchor.identifier = None THEN Some(uuid) ELSE @,
                     !.lib = Some(lib)],
     returned |-> anchor.lib]

\* Guideline::replace_lib (shared_types): as for the other sub-objects.
GuidelineReplaceLib(guideline, lib, uuid) ==
    [object   |-> [guideline EXCEPT
                     !.identifier = IF guideline.identifier = None THEN Some(uuid) ELSE @,
                     !.lib = Some(lib)],
     returned |-> guideline.lib]

\* Contour::replace_lib
ContourReplaceLib(contour, lib, uuid) ==
    [object   |-> [contour EXCEPT
                     !.identifier = IF contour.identifier = None THEN Some(uuid) ELSE @,
                     !.lib = Some(lib)],
     returned |-> contour.lib]

\* ContourPoint::replace_lib
ContourPointReplaceLib(point, lib, uuid) ==
    [object   |-> [point EXCEPT
                     !.identifier = IF point.identifier = None THEN Some(uuid) ELSE @,
                     !.lib = Some(lib)],
     returned |-> point.lib]

\* Component::replace_lib without the generation of an identifier.
ComponentReplaceLibNoIdentifier(component, lib, uuid) ==
    [object   |-> [component EXCEPT !.lib = Some(lib)],
     returned |-> component.lib]

\* Component::replace_lib
ComponentReplaceLib(component, lib, uuid) ==
    [object   |-> [component EXCEPT
                     !.identifier = IF component.identifier = None THEN Some(uuid) ELSE @,
                     !.lib = Some(lib)],
     returned |-> component.lib]

\* Anchor::take_lib: self.lib.take().
AnchorTakeLib(anchor) ==
    [object |-> [anchor EXCEPT !.lib = None], returned |-> anchor.lib]

\* Contour::take_lib dropping the identifier together with the lib.
ContourTakeLibForgets(contour) ==
    [object   |-> [contour EXCEPT !.lib = None, !.identifier = None],
     returned |-> contour.lib]

\* Contour::take_lib
ContourTakeLib(contour) ==
    [object |-> [contour EXCEPT !.lib = None], returned |-> contour.lib]

\* ContourPoint::take_lib
ContourPointTakeLib(point) ==
    [object |-> [point EXCEPT !.lib = None], returned |-> point.lib]

\* Component::take_lib
ComponentTakeLib(component) ==
    [object |-> [component EXCEPT !.lib = None], returned |-> component.lib]

\* Anchor::replace_identifier: self.identifier.replace(id).
AnchorReplaceIdentifier(anchor, id) ==
    [object |-> [anchor EXCEPT !.identifier = Some(id)], returned |-> anchor.identifier]

\* Contour::replace_identifier
ContourReplaceIdentifier(contour, id) ==
    [object |-> [contour EXCEPT !.identifier = Some(id)], returned |-> contour.identifier]

\* ContourPoint::replace_identifier
ContourPointReplaceIdentifier(point, id) ==
    [object |-> [point EXCEPT !.identifier = Some(id)], returned |-> point.identifier]

\* Component::replace_identifier
ComponentReplaceIdentifier(component, id) ==
    [object |-> [component EXCEPT !.identifier = Some(id)], returned |-> component.identifier]

\* The entry the caller of lib_mut puts into the lib it has borrowed.
EditedEntry == Entry("note", StringValue("edited"))

\* Anchor::lib_mut: self.lib.as_mut(), through which the caller inserts an
\* entry into the lib when there is one.  The lib referred to is returned.
AnchorLibMut(anchor) ==
    LET lib == IF IsSome(anchor.lib)
               THEN Some(Insert(Unwrap(anchor.lib), EditedEntry.key, EditedEntry.value))
               ELSE None
    IN [object |-> [anchor EXCEPT !.lib = lib], returned |-> lib]

\* Contour::lib_mut
ContourLibMut(contour) ==
    LET lib == IF IsSome(contour.lib)
               THEN Some(Insert(Unwrap(contour.lib), EditedEntry.key, EditedEntry.value))
               ELSE None
    IN [object |-> [contour EXCEPT !.lib = lib], returned |-> lib]

\* ContourPoint::lib_mut
ContourPointLibMut(point) ==
    LET lib == IF IsSome(point.lib)
               THEN Some(Insert(Unwrap(point.lib), EditedEntry.key, EditedEntry.value))
               ELSE None
    IN [object |-> [point EXCEPT !.lib = lib], returned |-> lib]

\* Component::lib_mut
ComponentLibMut(component) ==
    LET lib == IF IsSome(component.lib)
               THEN Some(Insert(Unwrap(component.lib), EditedEntry.key, EditedEntry.value))
               ELSE None
    IN [object |-> [component EXCEPT !.lib = lib], returned |-> lib]

\* Anchor::lib: self.lib.as_ref().
AnchorLib(anchor) == [object |-> anchor, returned |-> anchor.lib]

\* Contour::lib
ContourLib(contour) == [object |-> contour, returned |-> contour.lib]

\* ContourPoint::lib
ContourPointLib(point) == [object |-> point, returned |-> point.lib]

\* Component::lib
ComponentLib(component) == [object |-> component, returned |-> component.lib]

----------------------------------------------------------------------------
(* Glyph::fill_in_libs *)

\* The index of the first element of s whose identifier is key, 0 if none:
\* the position at which a `for x in s { if x.identifier() == key {..} }`
\* loop stops.
FirstMatch(s, key) ==
    IF \E i \in DOMAIN s : Matches(s[i], key)
    THEN CHOOSE i \in DOMAIN s :
            Matches(s[i], key) /\ \A j \in 1..(i - 1) : ~Matches(s[j], key)
    ELSE 0

\* The loop over self.anchors.
FillAnchors(g, key, value, uuid) ==
    IF IsSome(g.anchors) /\ FirstMatch(Unwrap(g.anchors), key) # 0
    THEN LET anchors == Unwrap(g.anchors)
             i == FirstMatch(anchors, key)
         IN [found |-> TRUE,
             glyph |-> [g EXCEPT !.anchors =
                          Some([anchors EXCEPT ![i] = AnchorReplaceLib(@, value, uuid).object])]]
    ELSE [found |-> FALSE, glyph |-> g]

\* The loop over self.guidelines.
FillGuidelines(g, key, value, uuid) ==
    IF IsSome(g.guidelines) /\ FirstMatch(Unwrap(g.guidelines), key) # 0
    THEN LET guidelines == Unwrap(g.guidelines)
             i == FirstMatch(guidelines, key)
         IN [found |-> TRUE,
             glyph |-> [g EXCEPT !.guidelines =
                          Some([guidelines EXCEPT ![i] = GuidelineReplaceLib(@, value, uuid).object])]]
    ELSE [found |-> FALSE, glyph |-> g]

\* The loop over outline.contours, from contour c on: each contour is
\* compared first, then its points, before the next contour is looked at.
\* Returns the contours afterwards.
RECURSIVE FillContours(_, _, _, _, _)
FillContours(contours, c, key, value, uuid) ==
    IF c > Len(contours)
    THEN [found |-> FALSE, contours |-> contours]
    ELSE IF Matches(contours[c], key)
    THEN [found |-> TRUE,
          contours |-> [contours EXCEPT ![c] = ContourReplaceLib(@, value, uuid).object]]
    ELSE IF FirstMatch(contours[c].points, key) # 0
    THEN LET p == FirstMatch(contours[c].points, key)
         IN [found |-> TRUE,
             contours |-> [contours EXCEPT
                             ![c].points[p] = ContourPointReplaceLib(@, value, uuid).object]]
    ELSE FillContours(contours, c + 1, key, value, uuid)

\* The loop over outline.components.
FillComponents(components, key, value, uuid) ==
    IF FirstMatch(components, key) # 0
    THEN [found |-> TRUE,
          components |-> [components EXCEPT ![FirstMatch(components, key)] =
                            ComponentReplaceLib(@, value, uuid).object]]
    ELSE [found |-> FALSE, components |-> components]

\* FillOutline with the loop over the components left out.
FillOutlineSkipsComponents(g, key, value, uuid) ==
    IF ~IsSome(g.outline)
    THEN [found |-> FALSE, glyph |-> g]
    ELSE LET outline == Unwrap(g.outline)
             c == FillContours(outline.contours, 1, key, value, uuid)
         IN IF c.found
            THEN [found |-> TRUE,
                  glyph |-> [g EXCEPT !.outline = Some([outline EXCEPT !.contours = c.contours])]]
            ELSE [found |-> FALSE, glyph |-> g]

\* `if let Some(outline) = &mut self.outline { .. }`
FillOutline(g, key, value, uuid) ==
    IF ~IsSome(g.outline)
    THEN [found |-> FALSE, glyph |-> g]
    ELSE LET outline == Unwrap(g.outline)
             c == FillContours(outline.contours, 1, key, value, uuid)
             k == FillComponents(outline.components, key, value, uuid)
         IN IF c.found
            THEN [found |-> TRUE,
                  glyph |-> [g EXCEPT !.outline = Some([outline EXCEPT !.contours = c.contours])]]
            ELSE IF k.found
            THEN [found |-> TRUE,
                  glyph |-> [g EXCEPT !.outline = Some([outline EXCEPT !.components = k.components])]]
            ELSE [found |-> FALSE, glyph |-> g]

\* PlaceLib without `continue 'next_key`: the search goes on after a match.
PlaceLibNoContinue(g, key, value, uuid) ==
    LET a == FillAnchors(g, key, value, uuid)
        l == FillGuidelines(a.glyph, key, value, uuid)
        o == FillOutline(l.glyph, key, value, uuid)
    IN [found |-> a.found \/ l.found \/ o.found, glyph |-> o.glyph]

\* One iteration of the 'next_key loop, after the value was found to be a
\* dictionary: anchors, then guidelines, then the outline.
PlaceLib(g, key, value, uuid) ==
    LET a == FillAnchors(g, key, value, uuid)
        l == FillGuidelines(g, key, value, uuid)
    IN IF a.found THEN a
       ELSE IF l.found THEN l
       ELSE FillOutline(g, key, value, uuid)

\* An application that looks at every value before it applies any entry.
RECURSIVE ApplyEntriesAllOrNothing(_, _, _, _)
ApplyEntriesAllOrNothing(g, object_libs, i, uuid) ==
    IF \E k \in i..Len(object_libs) : IntoDictionary(object_libs[k].value) = None
    THEN [glyph |-> g, result |-> "BadLib"]
    ELSE IF i > Len(object_libs) THEN [glyph |-> g, result |-> "Ok"]
         ELSE ApplyEntriesAllOrNothing(
                  PlaceLib(g, object_libs[i].key, Unwrap(IntoDictionary(object_libs[i].value)), uuid).glyph,
                  object_libs, i + 1, uuid)

\* ApplyEntries failing with BadLib on an entry that matches no sub-object.
RECURSIVE ApplyEntriesStrict(_, _, _, _)
ApplyEntriesStrict(g, object_libs, i, uuid) ==
    IF i > Len(object_libs)
    THEN [glyph |-> g, result |-> "Ok"]
    ELSE LET value == IntoDictionary(object_libs[i].value)
         IN IF value = None
            THEN [glyph |-> g, result |-> "BadLib"]
            ELSE LET placed == PlaceLib(g, object_libs[i].key, Unwrap(value), uuid)
                 IN IF ~placed.found
                    THEN [glyph |-> g, result |-> "BadLib"]
                    ELSE ApplyEntriesStrict(placed.glyph, object_libs, i + 1, uuid)

\* ApplyEntries passing over an entry whose value is no dictionary.
RECURSIVE ApplyEntriesLenient(_, _, _, _)
ApplyEntriesLenient(g, object_libs, i, uuid) ==
    IF i > Len(object_libs)
    THEN [glyph |-> g, result |-> "Ok"]
    ELSE LET value == IntoDictionary(object_libs[i].value)
         IN IF value = None
            THEN ApplyEntriesLenient(g, object_libs, i + 1, uuid)
            ELSE ApplyEntriesLenient(PlaceLib(g, object_libs[i].key, Unwrap(value), uuid).glyph,
                                     object_libs, i + 1, uuid)

\* The 'next_key loop from entry i on.
RECURSIVE ApplyEntries(_, _, _, _)
ApplyEntries(g, object_libs, i, uuid) ==
    IF i > Len(object_libs)
    THEN [glyph |-> g, result |-> "Ok"]
    ELSE LET value == IntoDictionary(object_libs[i].value)
         IN IF value = None
            THEN [glyph |-> g, result |-> "BadLib"]
            ELSE ApplyEntries(PlaceLib(g, object_libs[i].key, Unwrap(value), uuid).glyph,
                              object_libs, i + 1, uuid)

\* TakeObjectLibs reading the value with get, the key staying in the lib.
\* A removal that takes the whole lib out of the glyph with the key.
TakeObjectLibsDropsLib(g) ==
    IF IsSome(g.lib)
    THEN LET r == Remove(Unwrap(g.lib), PUBLIC_OBJECT_LIBS_KEY)
         IN [glyph |-> [g EXCEPT !.lib = IF r.value = None THEN Some(r.dict) ELSE None],
             value |-> r.value]
    ELSE [glyph |-> g, value |-> None]

TakeObjectLibsKeepsKey(g) ==
    IF IsSome(g.lib)
    THEN [glyph |-> g, value |-> Get(Unwrap(g.lib), PUBLIC_OBJECT_LIBS_KEY)]
    ELSE [glyph |-> g, value |-> None]

\* self.lib.as_mut().and_then(|lib| lib.remove(PUBLIC_OBJECT_LIBS_KEY)):
\* the glyph afterwards and the value removed.
TakeObjectLibs(g) ==
    IF IsSome(g.lib)
    THEN LET r == Remove(Unwrap(g.lib), PUBLIC_OBJECT_LIBS_KEY)
         IN [glyph |-> [g EXCEPT !.lib = Some(r.dict)], value |-> r.value]
    ELSE [glyph |-> g, value |-> None]

\* Glyph::fill_in_libs: the glyph afterwards and Ok or the ErrorKind.
FillInLibs(g, uuid) ==
    LET t == TakeObjectLibs(g)
    IN IF t.value = None
       THEN [glyph |-> t.glyph, result |-> "Ok"]
       ELSE LET object_libs == IntoDictionary(Unwrap(t.value))
            IN IF object_libs = None
               THEN [glyph |-> t.glyph, result |-> "BadLib"]
               ELSE ApplyEntries(t.glyph, Unwrap(object_libs), 1, uuid)

----------------------------------------------------------------------------
(* Glyph::libs_to_object_libs *)

\* The add_lib closure: object_libs.insert(id.unwrap(), Dictionary(lib)).
\* unwrap panics on an id of None; after a panic nothing more is done.
AddLib(acc, id, lib) ==
    IF acc.panicked THEN acc
    ELSE IF id = None
    THEN [panicked |-> TRUE, object_libs |-> acc.object_libs]
    ELSE [panicked |-> FALSE,
          object_libs |-> Insert(acc.object_libs, Unwrap(id), DictionaryValue(lib))]

\* CollectEach passing over the libs that are empty.
RECURSIVE CollectEachNonEmpty(_, _, _)
CollectEachNonEmpty(acc, s, i) ==
    IF i > Len(s) THEN acc
    ELSE CollectEachNonEmpty(IF IsSome(s[i].lib) /\ Unwrap(s[i].lib) # << >>
                             THEN AddLib(acc, s[i].identifier, Unwrap(s[i].lib))
                             ELSE acc,
                             s, i + 1)

\* `for x in s { if let Some(lib) = x.lib() { add_lib(x.identifier(), lib) } }`
\* from element i on.
RECURSIVE CollectEach(_, _, _)
CollectEach(acc, s, i) ==
    IF i > Len(s) THEN acc
    ELSE CollectEach(IF IsSome(s[i].lib)
                     THEN AddLib(acc, s[i].identifier, Unwrap(s[i].lib))
                     ELSE acc,
                     s, i + 1)

\* The loop over self.anchors.
CollectAnchors(acc, g) ==
    IF IsSome(g.anchors) THEN CollectEach(acc, Unwrap(g.anchors), 1) ELSE acc

\* The loop over self.guidelines.
CollectGuidelines(acc, g) ==
    IF IsSome(g.guidelines) THEN CollectEach(acc, Unwrap(g.guidelines), 1) ELSE acc

\* The loop over outline.contours from contour c on: the contour's lib, then
\* the libs of its points.
RECURSIVE CollectContours(_, _, _)
CollectContours(acc, contours, c) ==
    IF c > Len(contours) THEN acc
    ELSE CollectContours(
            CollectEach(IF IsSome(contours[c].lib)
                        THEN AddLib(acc, contours[c].identifier, Unwrap(contours[c].lib))
                        ELSE acc,
                        contours[c].points, 1),
            contours, c + 1)

\* `if let Some(outline) = &self.outline { .. }`: contours, then components.
CollectOutline(acc, g) ==
    IF IsSome(g.outline)
    THEN CollectEach(CollectContours(acc, Unwrap(g.outline).contours, 1),
                     Unwrap(g.outline).components, 1)
    ELSE acc

\* Glyph::libs_to_object_libs: the Plist built, or a panic.
LibsToObjectLibs(g) ==
    CollectOutline(
        CollectGuidelines(
            CollectAnchors([panicked |-> FALSE, object_libs |-> << >>], g),
            g),
        g)

----------------------------------------------------------------------------
(* Glyph::save *)

\* Glyph::encode_xml (serialize.rs): the sub-object libs are collected and
\* merged under public.objectLibs into a copy of the lib, which is emitted
\* with format 2.
EncodeXml(g) ==
    LET c == LibsToObjectLibs(g)
    IN IF c.panicked
       THEN [panicked |-> TRUE, data |-> None]
       ELSE [panicked |-> FALSE,
             data |-> Some([name   |-> g.name,
                            format |-> "V2",
                            lib    |-> IF c.object_libs = << >>
                                       THEN g.lib
                                       ELSE Some(Insert(IF IsSome(g.lib) THEN Unwrap(g.lib) ELSE << >>,
                                                        PUBLIC_OBJECT_LIBS_KEY,
                                                        DictionaryValue(c.object_libs)))])]

\* Save without the check of the format.
SaveAnyFormat(g, d, io) ==
    IF IsSome(g.lib) /\ ContainsKey(Unwrap(g.lib), PUBLIC_OBJECT_LIBS_KEY)
    THEN [glyph |-> g, result |-> "PreexistingPublicObjectLibsKey", disk |-> d]
    ELSE LET x == EncodeXml(g)
         IN IF x.panicked THEN [glyph |-> g, result |-> "panic", disk |-> d]
            ELSE IF io = "error" THEN [glyph |-> g, result |-> "Io", disk |-> d]
            ELSE [glyph |-> g, result |-> "Ok", disk |-> x.data]

\* Save without the check of the key public.objectLibs.
SaveAnyLib(g, d, io) ==
    IF g.format # "V2"
    THEN [glyph |-> g, result |-> "DowngradeUnsupported", disk |-> d]
    ELSE LET x == EncodeXml(g)
         IN IF x.panicked THEN [glyph |-> g, result |-> "panic", disk |-> d]
            ELSE IF io = "error" THEN [glyph |-> g, result |-> "Io", disk |-> d]
            ELSE [glyph |-> g, result |-> "Ok", disk |-> x.data]

\* Save keeping the lib it emitted in the glyph.
SaveKeepsEmittedLib(g, d, io) ==
    IF g.format # "V2"
    THEN [glyph |-> g, result |-> "DowngradeUnsupported", disk |-> d]
    ELSE IF IsSome(g.lib) /\ ContainsKey(Unwrap(g.lib), PUBLIC_OBJECT_LIBS_KEY)
    THEN [glyph |-> g, result |-> "PreexistingPublicObjectLibsKey", disk |-> d]
    ELSE LET x == EncodeXml(g)
         IN IF x.panicked THEN [glyph |-> g, result |-> "panic", disk |-> d]
            ELSE IF io = "error"
            THEN [glyph |-> [g EXCEPT !.lib = Unwrap(x.data).lib], result |-> "Io", disk |-> d]
            ELSE [glyph |-> [g EXCEPT !.lib = Unwrap(x.data).lib], result |-> "Ok", disk |-> x.data]

\* Glyph::save(&self, path), with d the data at the path before and io
\* telling whether encoding and writing the file succeed: the glyph
\* afterwards (save borrows it immutably), how save ended and the data at
\* the path afterwards.
Save(g, d, io) ==
    IF g.format # "V2"
    THEN [glyph |-> g, result |-> "DowngradeUnsupported", disk |-> d]
    ELSE IF IsSome(g.lib) /\ ContainsKey(Unwrap(g.lib), PUBLIC_OBJECT_LIBS_KEY)
    THEN [glyph |-> g, result |-> "PreexistingPublicObjectLibsKey", disk |-> d]
    ELSE LET x == EncodeXml(g)
         IN IF x.panicked THEN [glyph |-> g, result |-> "panic", disk |-> d]
            ELSE IF io = "error" THEN [glyph |-> g, result |-> "Io", disk |-> d]
            ELSE [glyph |-> g, result |-> "Ok", disk |-> x.data]

----------------------------------------------------------------------------
(* The glyphs the operations are applied to *)

\* The largest number of sub-objects (anchors, guidelines, contours, points
\* and components together) of a glyph.
MaxObjects == 3

Identifiers == {"id-1", "id-2"}

OptIdentifiers == {None} \cup {Some(id) : id \in Identifiers}

\* A lib with one entry.
NoteLib(s) == <<Entry("note", StringValue(s))>>

EmptyLib == << >>

\* An entry of the glyph lib that norad does not manage.
OtherEntry == Entry("com.example.key", StringValue("kept"))

\* All sequences over S of length at most n.
SeqsUpTo(S, n) == UNION {[1..k -> S] : k \in 0..n}

RECURSIVE SumSeq(_)
SumSeq(s) == IF s = << >> THEN 0 ELSE s[1] + SumSeq(Tail(s))

\* The numbers of points of the contours of an outline with at most n
\* contours and points together.
PointCounts(n) == {pc \in SeqsUpTo(0..n, n) : Len(pc) + SumSeq(pc) <= n}

\* The sub-objects without points, their libs drawn from OptLibs.
Objects(OptLibs) == [identifier : OptIdentifiers, lib : OptLibs]

\* The contours with the given numbers of points.
RECURSIVE ContourSeqs(_, _)
ContourSeqs(pc, OptLibs) ==
    IF pc = << >>
    THEN {<< >>}
    ELSE {<<[identifier |-> o.identifier, lib |-> o.lib, points |-> pts]>> \o rest :
            o \in Objects(OptLibs),
            pts \in [1..pc[1] -> Objects(OptLibs)],
            rest \in ContourSeqs(Tail(pc), OptLibs)}

\* Option<Vec<T>>: None for no element.
OptVec(v) == IF v = << >> THEN None ELSE Some(v)

\* Glyph: name, format, advance, codepoints, note, guidelines, anchors,
\* outline, image and lib (advance, codepoints, note and image are read by
\* none of the operations here and have one value in all glyphs).
MakeGlyph(format, anchors, guidelines, contours, components, lib) ==
    [name       |-> "a",
     format     |-> format,
     advance    |-> Some([height |-> 0, width |-> 500]),
     codepoints |-> Some(<<97>>),
     note       |-> None,
     image      |-> None,
     guidelines |-> OptVec(guidelines),
     anchors    |-> OptVec(anchors),
     outline    |-> IF contours = << >> /\ components = << >>
                    THEN None
                    ELSE Some([components |-> components, contours |-> contours]),
     lib        |-> lib]

\* The sub-objects of s, each with coordinates of its own: x is its place
\* in s.
Placed(s) ==
    [i \in DOMAIN s |->
        [x |-> i, y |-> 0, identifier |-> s[i].identifier, lib |-> s[i].lib]]

\* The contours of s with their points, each point with coordinates of its
\* own and a type: a Move first, Lines after it.
PlacedContours(s) ==
    [c \in DOMAIN s |->
        [identifier |-> s[c].identifier,
         lib        |-> s[c].lib,
         points     |-> [i \in DOMAIN s[c].points |->
                           [x          |-> i,
                            y          |-> c,
                            typ        |-> IF i = 1 THEN "Move" ELSE "Line",
                            identifier |-> s[c].points[i].identifier,
                            lib        |-> s[c].points[i].lib]]]]

\* glyph is some glyph of at most n sub-objects, with the libs of its
\* sub-objects drawn from OptLibs, its own lib from GlyphLibs and its format
\* from Formats.
SomeGlyph(n, OptLibs, GlyphLibs, Formats) ==
    \E a \in 0..n :
    \E l \in 0..(n - a) :
    \E k \in 0..(n - a - l) :
    \E pc \in PointCounts(n - a - l - k) :
    \E anchors \in [1..a -> Objects(OptLibs)] :
    \E guidelines \in [1..l -> Objects(OptLibs)] :
    \E components \in [1..k -> Objects(OptLibs)] :
    \E contours \in ContourSeqs(pc, OptLibs) :
    \E lib \in GlyphLibs :
    \E format \in Formats :
        glyph = MakeGlyph(format, Placed(anchors), Placed(guidelines),
                          PlacedContours(contours), Placed(components), lib)

\* The values a public.objectLibs entry for identifier id can have: a
\* dictionary that names the identifier, or something that is no dictionary.
EntryValues(id) == {DictionaryValue(NoteLib(id)), StringValue("bad")}

\* The dictionaries under public.objectLibs: entries for the identifiers, in
\* any order.
ObjectLibsDicts ==
    {d \in SeqsUpTo({Entry(id, v) : id \in Identifiers, v \in UNION {EntryValues(i) : i \in Identifiers}},
                    Cardinality(Identifiers)) :
        /\ \A i \in DOMAIN d : d[i].value \in EntryValues(d[i].key)
        /\ \A i, j \in DOMAIN d : i # j => d[i].key # d[j].key}

\* The glyph libs a parsed .glif file can have.
ParsedLibs ==
    {None, Some(<<OtherEntry>>)}
    \cup {Some(<<Entry(PUBLIC_OBJECT_LIBS_KEY, v), OtherEntry>>) :
            v \in {StringValue("bad")} \cup {DictionaryValue(d) : d \in ObjectLibsDicts}}

\* The lib the sub-objects of a glyph have before the redistribution: none,
\* or one that the redistribution is to replace.
PriorLibs == {None, Some(NoteLib("prior"))}

----------------------------------------------------------------------------
(* Loading: the parser has built the glyph and calls fill_in_libs *)

InitLoad ==
    /\ \E prior \in PriorLibs : SomeGlyph(MaxObjects, {prior}, ParsedLibs, {"V2"})
    /\ old = glyph
    /\ op = "parsed"
    /\ result = "Ok"
    /\ plist = None
    /\ disk = None
    /\ args = NoArgs
    /\ output = None
    /\ contents = << >>

\* The parser's call of fill_in_libs on the glyph it has built.
LoadFillInLibs ==
    /\ op = "parsed"
    /\ \E uuid \in Uuids :
         LET r == FillInLibs(glyph, uuid)
         IN /\ glyph' = r.glyph
            /\ result' = r.result
    /\ old' = glyph
    /\ op' = "fill_in_libs"
    /\ plist' = None
    /\ UNCHANGED <<disk, args, output, contents>>

NextLoad == LoadFillInLibs

SpecLoad == InitLoad /\ [][NextLoad]_vars

----------------------------------------------------------------------------
(* Saving: the application has built a glyph and saves it *)

\* The largest number of sub-objects of a glyph that is saved.
MaxSavedObjects == 2

\* The libs of the sub-objects of a glyph that is saved: none, an empty one,
\* one with an entry.
BuiltObjectLibs == {None, Some(EmptyLib), Some(NoteLib("hi"))}

\* The libs of a glyph that is saved: none, one without and one with the
\* key public.objectLibs.
BuiltLibs ==
    {None,
     Some(<<OtherEntry>>),
     Some(<<OtherEntry, Entry(PUBLIC_OBJECT_LIBS_KEY, DictionaryValue(EmptyLib))>>)}

InitSave ==
    /\ SomeGlyph(MaxSavedObjects, BuiltObjectLibs, BuiltLibs, {"V1", "V2"})
    /\ old = glyph
    /\ op = "built"
    /\ result = "Ok"
    /\ plist = None
    /\ disk = None
    /\ args = NoArgs
    /\ output = None
    /\ contents = << >>

\* A call of libs_to_object_libs on the glyph.
CollectLibs ==
    /\ result # "panic"
    /\ LET c == LibsToObjectLibs(glyph)
       IN /\ result' = IF c.panicked THEN "panic" ELSE "Ok"
          /\ plist' = IF c.panicked THEN None ELSE Some(c.object_libs)
    /\ old' = glyph
    /\ op' = "libs_to_object_libs"
    /\ UNCHANGED <<glyph, disk, args, output, contents>>

\* A call of save on the glyph.
SaveGlyph ==
    /\ result # "panic"
    /\ \E io \in {"ok", "error"} :
         LET r == Save(glyph, disk, io)
         IN /\ glyph' = r.glyph
            /\ result' = r.result
            /\ disk' = r.disk
    /\ old' = glyph
    /\ op' = "save"
    /\ plist' = None
    /\ UNCHANGED <<args, output, contents>>

NextSave == CollectLibs \/ SaveGlyph

SpecSave == InitSave /\ [][NextSave]_vars

----------------------------------------------------------------------------
(* The round trip of the sub-object libs: libs_to_object_libs collects them *)
(* as on saving, fill_in_libs gives them back as on loading                *)

\* The sub-objects of s with the identifiers they have and no lib.
Bare(s) == [i \in DOMAIN s |-> [s[i] EXCEPT !.lib = None]]

\* The contours of s and their points with their identifiers and no lib.
BareContours(s) ==
    [i \in DOMAIN s |-> [s[i] EXCEPT !.lib = None, !.points = Bare(@)]]

\* The copy of g that a file written from g holds: every sub-object with its
\* identifier and without lib, and object_libs under public.objectLibs in
\* the glyph lib.
WrittenCopy(g, object_libs) ==
    [g EXCEPT
       !.anchors    = IF IsSome(@) THEN Some(Bare(Unwrap(@))) ELSE None,
       !.guidelines = IF IsSome(@) THEN Some(Bare(Unwrap(@))) ELSE None,
       !.outline    = IF IsSome(@)
                      THEN Some([components |-> Bare(Unwrap(@).components),
                                 contours   |-> BareContours(Unwrap(@).contours)])
                      ELSE None,
       !.lib        = Some(Insert(IF IsSome(@) THEN Unwrap(@) ELSE << >>,
                                  PUBLIC_OBJECT_LIBS_KEY,
                                  DictionaryValue(object_libs)))]

\* libs_to_object_libs on the glyph, then fill_in_libs on the copy of the
\* glyph that holds the collected dictionary.
RoundTrip ==
    /\ op = "built"
    /\ \E uuid \in Uuids :
         LET c == LibsToObjectLibs(glyph)
             r == FillInLibs(WrittenCopy(glyph, c.object_libs), uuid)
         IN /\ glyph' = IF c.panicked THEN glyph ELSE r.glyph
            /\ result' = IF c.panicked THEN "panic" ELSE r.result
    /\ old' = glyph
    /\ op' = "round_trip"
    /\ plist' = None
    /\ UNCHANGED <<disk, args, output, contents>>

NextRoundTrip == RoundTrip

SpecRoundTrip == InitSave /\ [][NextRoundTrip]_vars

----------------------------------------------------------------------------
(* Editing: the application calls the methods of the sub-objects of a      *)
(* glyph that it has built or loaded                                       *)

\* The places of the anchors, contours, contour points and components of
\* g: <<kind, index>>, and <<"point", contour, index>> for a point.
Paths(g) ==
    {<<"anchor", i>> : i \in 1..(IF IsSome(g.anchors) THEN Len(Unwrap(g.anchors)) ELSE 0)}
    \cup (IF IsSome(g.outline)
          THEN {<<"contour", c>> : c \in 1..Len(Unwrap(g.outline).contours)}
               \cup UNION {{<<"point", c, i>> : i \in 1..Len(Unwrap(g.outline).contours[c].points)} :
                             c \in 1..Len(Unwrap(g.outline).contours)}
               \cup {<<"component", i>> : i \in 1..Len(Unwrap(g.outline).components)}
          ELSE {})

\* The sub-object of g at path.
ObjectAt(g, path) ==
    CASE path[1] = "anchor"    -> Unwrap(g.anchors)[path[2]]
      [] path[1] = "contour"   -> Unwrap(g.outline).contours[path[2]]
      [] path[1] = "point"     -> Unwrap(g.outline).contours[path[2]].points[path[3]]
      [] path[1] = "component" -> Unwrap(g.outline).components[path[2]]

\* g with the sub-object at path replaced by obj.
Put(g, path, obj) ==
    CASE path[1] = "anchor"    -> [g EXCEPT !.anchors[1][path[2]] = obj]
      [] path[1] = "contour"   -> [g EXCEPT !.outline[1].contours[path[2]] = obj]
      [] path[1] = "point"     -> [g EXCEPT !.outline[1].contours[path[2]].points[path[3]] = obj]
      [] path[1] = "component" -> [g EXCEPT !.outline[1].components[path[2]] = obj]

\* replace_lib(lib) of the sub-object at path, by its type.
ReplaceLibAt(g, path, lib, uuid) ==
    CASE path[1] = "anchor"    -> AnchorReplaceLib(ObjectAt(g, path), lib, uuid)
      [] path[1] = "contour"   -> ContourReplaceLib(ObjectAt(g, path), lib, uuid)
      [] path[1] = "point"     -> ContourPointReplaceLib(ObjectAt(g, path), lib, uuid)
      [] path[1] = "component" -> ComponentReplaceLib(ObjectAt(g, path), lib, uuid)

\* take_lib() of the sub-object at path.
TakeLibAt(g, path) ==
    CASE path[1] = "anchor"    -> AnchorTakeLib(ObjectAt(g, path))
      [] path[1] = "contour"   -> ContourTakeLib(ObjectAt(g, path))
      [] path[1] = "point"     -> ContourPointTakeLib(ObjectAt(g, path))
      [] path[1] = "component" -> ComponentTakeLib(ObjectAt(g, path))

\* replace_identifier(id) of the sub-object at path.
ReplaceIdentifierAt(g, path, id) ==
    CASE path[1] = "anchor"    -> AnchorReplaceIdentifier(ObjectAt(g, path), id)
      [] path[1] = "contour"   -> ContourReplaceIdentifier(ObjectAt(g, path), id)
      [] path[1] = "point"     -> ContourPointReplaceIdentifier(ObjectAt(g, path), id)
      [] path[1] = "component" -> ComponentReplaceIdentifier(ObjectAt(g, path), id)

\* lib() of the sub-object at path.
LibAt(g, path) ==
    CASE path[1] = "anchor"    -> AnchorLib(ObjectAt(g, path))
      [] path[1] = "contour"   -> ContourLib(ObjectAt(g, path))
      [] path[1] = "point"     -> ContourPointLib(ObjectAt(g, path))
      [] path[1] = "component" -> ComponentLib(ObjectAt(g, path))

\* lib_mut() of the sub-object at path.
LibMutAt(g, path) ==
    CASE path[1] = "anchor"    -> AnchorLibMut(ObjectAt(g, path))
      [] path[1] = "contour"   -> ContourLibMut(ObjectAt(g, path))
      [] path[1] = "point"     -> ContourPointLibMut(ObjectAt(g, path))
      [] path[1] = "component" -> ComponentLibMut(ObjectAt(g, path))

\* The libs the application passes to replace_lib.
GivenLibs == {EmptyLib, NoteLib("hi")}

\* The glyphs that are edited hold one anchor, one guideline, one component,
\* one contour, or one contour with one point.
Shapes == {"anchor", "guideline", "component", "contour", "point"}

ShapedGlyph(shape, o, p, lib) ==
    CASE shape = "anchor"    -> MakeGlyph("V2", <<o>>, << >>, << >>, << >>, lib)
      [] shape = "guideline" -> MakeGlyph("V2", << >>, <<o>>, << >>, << >>, lib)
      [] shape = "component" -> MakeGlyph("V2", << >>, << >>, << >>, <<o>>, lib)
      [] shape = "contour"   ->
            MakeGlyph("V2", << >>, << >>,
                      <<[identifier |-> o.identifier, lib |-> o.lib, points |-> << >>]>>,
                      << >>, lib)
      [] shape = "point"     ->
            MakeGlyph("V2", << >>, << >>,
                      <<[identifier |-> o.identifier, lib |-> o.lib, points |-> <<p>>]>>,
                      << >>, lib)

\* The application has built the glyph from Anchor::new, Contour::new,
\* ContourPoint::new or Component::new, or the parser has built it and is
\* about to call fill_in_libs.
InitEdit ==
    /\ \/ /\ \E shape \in Shapes \ {"guideline"} :
             \E o, p \in Objects(BuiltObjectLibs) :
                glyph = ShapedGlyph(shape, o, p, None)
          /\ op = "built"
       \/ /\ \E shape \in Shapes :
             \E prior \in PriorLibs :
             \E o, p \in Objects({prior}) :
             \E lib \in ParsedLibs :
                glyph = ShapedGlyph(shape, o, p, lib)
          /\ op = "parsed"
    /\ old = glyph
    /\ result = "Ok"
    /\ plist = None
    /\ disk = None
    /\ args = NoArgs
    /\ output = None
    /\ contents = << >>

\* The application holds the glyph: it has built it, or loading it has
\* succeeded.
InHand == op # "parsed" /\ result = "Ok"

\* A call of replace_lib on a sub-object.
ReplaceLib ==
    /\ InHand
    /\ \E path \in Paths(glyph) :
       \E lib \in GivenLibs :
       \E uuid \in Uuids :
         LET r == ReplaceLibAt(glyph, path, lib, uuid)
         IN /\ glyph' = Put(glyph, path, r.object)
            /\ plist' = r.returned
            /\ args' = [NoArgs EXCEPT !.path = path, !.lib = Some(lib)]
    /\ old' = glyph
    /\ op' = "replace_lib"
    /\ output' = None
    /\ UNCHANGED <<result, disk, contents>>

\* A call of take_lib on a sub-object.
TakeLib ==
    /\ InHand
    /\ \E path \in Paths(glyph) :
         LET r == TakeLibAt(glyph, path)
         IN /\ glyph' = Put(glyph, path, r.object)
            /\ plist' = r.returned
            /\ args' = [NoArgs EXCEPT !.path = path]
    /\ old' = glyph
    /\ op' = "take_lib"
    /\ output' = None
    /\ UNCHANGED <<result, disk, contents>>

\* A call of replace_identifier on a sub-object; the identifier returned is
\* in output.
ReplaceIdentifier ==
    /\ InHand
    /\ \E path \in Paths(glyph) :
       \E id \in Identifiers :
         LET r == ReplaceIdentifierAt(glyph, path, id)
         IN /\ glyph' = Put(glyph, path, r.object)
            /\ output' = r.returned
            /\ args' = [NoArgs EXCEPT !.path = path, !.identifier = Some(id)]
    /\ old' = glyph
    /\ op' = "replace_identifier"
    /\ plist' = None
    /\ UNCHANGED <<result, disk, contents>>

\* A call of lib on a sub-object.
Lib ==
    /\ InHand
    /\ \E path \in Paths(glyph) :
         LET r == LibAt(glyph, path)
         IN /\ glyph' = Put(glyph, path, r.object)
            /\ plist' = r.returned
            /\ args' = [NoArgs EXCEPT !.path = path]
    /\ old' = glyph
    /\ op' = "lib"
    /\ output' = None
    /\ UNCHANGED <<result, disk, contents>>

\* A call of lib_mut on a sub-object, and the caller's use of the reference.
LibMut ==
    /\ InHand
    /\ \E path \in Paths(glyph) :
         LET r == LibMutAt(glyph, path)
         IN /\ glyph' = Put(glyph, path, r.object)
            /\ plist' = r.returned
            /\ args' = [NoArgs EXCEPT !.path = path]
    /\ old' = glyph
    /\ op' = "lib_mut"
    /\ output' = None
    /\ UNCHANGED <<result, disk, contents>>

NextEdit ==
    \/ LoadFillInLibs
    \/ ReplaceLib
    \/ TakeLib
    \/ ReplaceIdentifier
    \/ Lib
    \/ LibMut

SpecEdit == InitEdit /\ [][NextEdit]_vars

----------------------------------------------------------------------------
(* Contours: Contour::new, ContourPoint::new and Contour::is_closed *)

\* enum PointType
PointTypes == {"Move", "Line", "OffCurve", "Curve", "QCurve"}

\* The largest number of points of a contour.
MaxContourPoints == 3

\* ContourPoint::new: the arguments are stored as they are (x, y, smooth and
\* name are read by no operation here).
ContourPointNew(typ, identifier, lib) ==
    [typ |-> typ, identifier |-> identifier, lib |-> lib]

\* Contour::new: the arguments are stored as they are.
ContourNew(points, identifier, lib) ==
    [points |-> points, identifier |-> identifier, lib |-> lib]

\* is_closed answering false for a contour without points.
IsClosedEmptyOpen(contour) ==
    IF contour.points = << >> THEN FALSE ELSE contour.points[1].typ # "Move"

\* Contour::is_closed: self.points.first().map_or(true, |v| v.typ != Move).
IsClosed(contour) ==
    IF contour.points = << >> THEN TRUE ELSE contour.points[1].typ # "Move"

\* The application has built a contour of points of any types.
InitContour ==
    /\ \E types \in SeqsUpTo(PointTypes, MaxContourPoints) :
         glyph = MakeGlyph("V2", << >>, << >>,
                           <<ContourNew([i \in DOMAIN types |->
                                            ContourPointNew(types[i], None, None)],
                                        None, None)>>,
                           << >>, None)
    /\ old = glyph
    /\ op = "built"
    /\ result = "Ok"
    /\ plist = None
    /\ disk = None
    /\ args = NoArgs
    /\ output = None
    /\ contents = << >>

\* A call of is_closed on the contour; the answer is in output.
ContourIsClosed ==
    /\ op = "built"
    /\ output' = IsClosed(Unwrap(glyph.outline).contours[1])
    /\ args' = [NoArgs EXCEPT !.path = <<"contour", 1>>]
    /\ old' = glyph
    /\ op' = "is_closed"
    /\ UNCHANGED <<glyph, result, plist, disk, contents>>

NextContour == ContourIsClosed

SpecContour == InitContour /\ [][NextContour]_vars

----------------------------------------------------------------------------
(* default_file_name_for_glyph_name.  A glyph name is the sequence of the  *)
(* code points of its characters (name.chars()); a String is the sequence  *)
(* of the bytes of its UTF-8 encoding, so that len, is_char_boundary and   *)
(* truncate count bytes as they do in Rust.                                *)

\* '\\', '*', '+', '/', ':', '<', '>', '?', '[', ']', '|'
SPECIAL_ILLEGAL == {92, 42, 43, 47, 58, 60, 62, 63, 91, 93, 124}

\* ".glif"
SUFFIX == <<46, 103, 108, 105, 102>>

MAX_LEN == 255

\* The UTF-8 encoding of the character with code point c.
Utf8(c) ==
    IF c < 128 THEN <<c>>
    ELSE IF c < 2048 THEN <<192 + (c \div 64), 128 + (c % 64)>>
    ELSE IF c < 65536
    THEN <<224 + (c \div 4096), 128 + ((c \div 64) % 64), 128 + (c % 64)>>
    ELSE <<240 + (c \div 262144), 128 + ((c \div 4096) % 64),
           128 + ((c \div 64) % 64), 128 + (c % 64)>>

\* String::push
Push(string, c) == string \o Utf8(c)

\* char::is_ascii_uppercase
IsAsciiUppercase(c) == c \in 65..90

\* A match on c that pushes an ASCII uppercase letter without the '_'.
EscapeCharNoUnderscore(is_empty, c) ==
    IF c = 46 /\ is_empty THEN Push(<< >>, 95)
    ELSE IF c < 32 \/ c = 127 \/ c \in SPECIAL_ILLEGAL THEN Push(<< >>, 95)
    ELSE Push(<< >>, c)

\* The match pushing '_' for a '.' wherever it stands.
EscapeCharEveryDot(is_empty, c) ==
    IF c = 46 THEN Push(<< >>, 95)
    ELSE IF c < 32 \/ c = 127 \/ c \in SPECIAL_ILLEGAL THEN Push(<< >>, 95)
    ELSE IF IsAsciiUppercase(c) THEN Push(Push(<< >>, c), 95)
    ELSE Push(<< >>, c)

\* The body of `for c in name.chars()`, the match on c: what is pushed onto
\* result, is_empty telling whether result.is_empty() holds.
EscapeChar(is_empty, c) ==
    IF c = 46 /\ is_empty THEN Push(<< >>, 95)
    ELSE IF c < 32 \/ c = 127 \/ c \in SPECIAL_ILLEGAL THEN Push(<< >>, 95)
    ELSE IF IsAsciiUppercase(c) THEN Push(Push(<< >>, c), 95)
    ELSE Push(<< >>, c)

\* The loop `for c in name.chars()` over the characters from..to of name:
\* what it pushes onto result, for the first half of the characters and
\* then for the second half; result is empty for the second half when it
\* was empty before and the first half has pushed nothing.
RECURSIVE EscapeChars(_, _, _, _)
EscapeChars(is_empty, name, from, to) ==
    IF from > to THEN << >>
    ELSE IF from = to THEN EscapeChar(is_empty, name[from])
    ELSE LET mid  == (from + to) \div 2
             half == EscapeChars(is_empty, name, from, mid)
         IN half \o EscapeChars(is_empty /\ half = << >>, name, mid + 1, to)

\* str::is_char_boundary: the start, the end, or a byte that is no
\* continuation byte (10xxxxxx).
IsCharBoundary(string, index) ==
    \/ index = 0
    \/ index = Len(string)
    \/ index < Len(string) /\ string[index + 1] \notin 128..191

\* `while !result.is_char_boundary(boundary) { boundary -= 1; }`
RECURSIVE FindBoundary(_, _)
FindBoundary(string, boundary) ==
    IF IsCharBoundary(string, boundary) THEN boundary
    ELSE FindBoundary(string, boundary - 1)

\* The truncation starting from MAX_LEN, the suffix not counted.
TruncateOverlong(escaped) ==
    IF Len(escaped) + Len(SUFFIX) > MAX_LEN
    THEN SubSeq(escaped, 1, FindBoundary(escaped, MAX_LEN))
    ELSE escaped

\* `if result.len() + SUFFIX.len() > MAX_LEN { .. result.truncate(boundary) }`
Truncate(escaped) ==
    IF Len(escaped) + Len(SUFFIX) > MAX_LEN
    THEN SubSeq(escaped, 1, FindBoundary(escaped, 255 - Len(SUFFIX)))
    ELSE escaped

\* default_file_name_for_glyph_name(name): result starts empty.
DefaultFileNameForGlyphName(name) ==
    Truncate(EscapeChars(TRUE, name, 1, Len(name))) \o SUFFIX

\* The characters of the glyph names: '.', '*', 'A', 'a', '_', the controls
\* 0x1F and 0x7F, and characters of two, three and four bytes.
Alphabet == {46, 42, 65, 97, 95, 31, 127, 233, 8364, 128512}

\* The characters that long glyph names repeat: 'a', 'A' and a character of
\* two bytes.
PadChars == {97, 65, 233}

\* The largest number of characters that follow the repeated ones.
MaxTail == 2

\* Long names fall at most this many bytes short of the place of the cut.
PadSlack == 4

Repeat(c, k) == [i \in 1..k |-> c]

\* The glyph names of the examples: "A", ".notdef", "a*b".
ExampleNames ==
    {<<65>>, <<46, 110, 111, 116, 100, 101, 102>>, <<97, 42, 98>>}

\* The numbers of repetitions of c in a name: none, or as many as make the
\* escaped repetitions reach the place of the cut, fall at most PadSlack
\* bytes short of it or pass it by one byte.
PadCounts(c) ==
    {0} \cup {k \in 1..MAX_LEN :
                k * Len(EscapeChar(FALSE, c))
                    \in (MAX_LEN - Len(SUFFIX) - PadSlack)..(MAX_LEN - Len(SUFFIX) + 1)}

\* The glyph names: the examples, short names, and long names that end in
\* any short name.
GlyphNames ==
    ExampleNames
    \cup UNION {UNION {{Repeat(c, k) \o tail : tail \in SeqsUpTo(Alphabet, MaxTail)} :
                         k \in PadCounts(c)} :
                  c \in PadChars}

\* A glyph with no sub-object.
EmptyGlyph == MakeGlyph("V2", << >>, << >>, << >>, << >>, None)

\* A glyph name is about to be given to default_file_name_for_glyph_name.
InitFileName ==
    /\ \E name \in GlyphNames : args = [NoArgs EXCEPT !.name = name]
    /\ glyph = EmptyGlyph
    /\ old = glyph
    /\ op = "named"
    /\ result = "Ok"
    /\ plist = None
    /\ disk = None
    /\ output = None
    /\ contents = << >>

\* The call of default_file_name_for_glyph_name; the String returned is in
\* output.
DefaultFileName ==
    /\ op = "named"
    /\ output' = DefaultFileNameForGlyphName(args.name)
    /\ op' = "default_file_name_for_glyph_name"
    /\ UNCHANGED <<glyph, old, result, plist, disk, args, contents>>

NextFileName == DefaultFileName

SpecFileName == InitFileName /\ [][NextFileName]_vars

----------------------------------------------------------------------------
(* The file names of the glyphs of a layer.  The layer writer is not part  *)
(* of the glyph module; its resolution of collisions follows section 4.4.1 *)
(* of the specification: a numeric suffix #<n> before ".glif", n starting  *)
(* at 1, until the name is unique within the layer.                        *)

\* The decimal digits of n.
RECURSIVE Digits(_)
Digits(n) == IF n < 10 THEN <<48 + n>> ELSE Digits(n \div 10) \o <<48 + (n % 10)>>

\* file_name with "#<n>" before its suffix ".glif".
WithNumber(file_name, n) ==
    SubSeq(file_name, 1, Len(file_name) - Len(SUFFIX)) \o <<35>> \o Digits(n) \o SUFFIX

\* The resolution trying the suffix #1 only.
ResolveCollisionOnce(existing, file_name, n) == WithNumber(file_name, n)

\* The first of file_name#n, file_name#(n+1), .. that is not in existing.
RECURSIVE ResolveCollision(_, _, _)
ResolveCollision(existing, file_name, n) ==
    IF WithNumber(file_name, n) \notin existing
    THEN WithNumber(file_name, n)
    ELSE ResolveCollision(existing, file_name, n + 1)

\* The file name given to the glyph name in a layer whose file names are
\* existing.
FileNameInLayer(existing, name) ==
    LET file_name == DefaultFileNameForGlyphName(name)
    IN IF file_name \notin existing THEN file_name
       ELSE ResolveCollision(existing, file_name, 1)

\* The largest number of glyphs of a layer.
MaxGlyphs == 3

\* The glyph names of a layer: "a*", "a+", "a_" and "a_#1", of which the
\* first three have one default file name and the last has the file name
\* that the resolution gives to the second of them, and two names that are
\* truncated to one string.
LayerNames ==
    {<<97, 42>>, <<97, 43>>, <<97, 95>>, <<97, 95, 35, 49>>,
     Repeat(97, MAX_LEN - Len(SUFFIX) + 1), Repeat(97, MAX_LEN - Len(SUFFIX) + 2)}

\* A layer without glyphs.
InitLayer ==
    /\ contents = << >>
    /\ glyph = EmptyGlyph
    /\ old = glyph
    /\ op = "new_layer"
    /\ result = "Ok"
    /\ plist = None
    /\ disk = None
    /\ args = NoArgs
    /\ output = None

\* A glyph with a name that the layer does not have is given its file name.
InsertGlyph ==
    /\ Len(contents) < MaxGlyphs
    /\ \E name \in LayerNames \ {contents[i].name : i \in DOMAIN contents} :
         LET file_name == FileNameInLayer({contents[i].file_name : i \in DOMAIN contents}, name)
         IN /\ contents' = Append(contents, [name |-> name, file_name |-> file_name])
            /\ args' = [NoArgs EXCEPT !.name = name]
            /\ output' = file_name
    /\ op' = "insert_glyph"
    /\ UNCHANGED <<glyph, old, result, plist, disk>>

NextLayer == InsertGlyph

SpecLayer == InitLayer /\ [][NextLayer]_vars

\* ---------------------------------------------------------------------
\* default_file_name_for_glyph_name on two names that differ in case
\* ---------------------------------------------------------------------

\* The characters of the names given in pairs: 'A', 'a', 'B', 'b', '_', the
\* illegal '*' and '.'.
CaseAlphabet == {65, 97, 66, 98, 95, 42, 46}

\* The largest length of the short names given in pairs, and the number of
\* characters at the end of a name in which the second name of a pair may
\* differ from the first.
MaxCaseLen == 3

\* The characters that differ from c in nothing but the case of an ASCII
\* letter, c among them.
CaseVariantsOf(c) ==
    IF c \in 65..90 THEN {c, c + 32}
    ELSE IF c \in 97..122 THEN {c - 32, c}
    ELSE {c}

\* The strings that differ from s in nothing but the case of ASCII letters.
RECURSIVE VariantsOf(_)
VariantsOf(s) ==
    IF s = << >> THEN {<< >>}
    ELSE {<<d>> \o rest : d \in CaseVariantsOf(s[1]), rest \in VariantsOf(Tail(s))}

\* The names other than name that differ from it in the case of ASCII
\* letters among its last MaxCaseLen characters.
Variants(name) ==
    LET n == Len(name)
        t == IF n > MaxCaseLen THEN MaxCaseLen ELSE n
    IN {SubSeq(name, 1, n - t) \o tail : tail \in VariantsOf(SubSeq(name, n - t + 1, n))}
       \ {name}

\* The first names of the pairs: short names, and long names of 'a's that
\* end in 'A', 'a' and '_' and whose file names fall near the place of the
\* cut.
CaseNames ==
    (SeqsUpTo(CaseAlphabet, MaxCaseLen) \ {<< >>})
    \cup UNION {{Repeat(97, k) \o tail : tail \in SeqsUpTo({65, 97, 95}, MaxTail) \ {<< >>}} :
                 k \in PadCounts(97) \ {0}}

\* No glyph has been named.
InitCasePair ==
    /\ contents = << >>
    /\ glyph = EmptyGlyph
    /\ old = glyph
    /\ op = "named"
    /\ result = "Ok"
    /\ plist = None
    /\ disk = None
    /\ args = NoArgs
    /\ output = None

\* A call of default_file_name_for_glyph_name, on some name at first and
\* then on a name that differs from the first in case; the names and the
\* Strings returned are kept in contents.
DefaultFileNameOfPair ==
    /\ Len(contents) < 2
    /\ \E name \in IF contents = << >> THEN CaseNames ELSE Variants(contents[1].name) :
         /\ args' = [NoArgs EXCEPT !.name = name]
         /\ output' = DefaultFileNameForGlyphName(name)
         /\ contents' = Append(contents, [name |-> name, file_name |-> output'])
    /\ op' = "default_file_name_for_glyph_name"
    /\ UNCHANGED <<glyph, old, result, plist, disk>>

NextCasePair == DefaultFileNameOfPair

SpecCasePair == InitCasePair /\ [][NextCasePair]_vars

----------------------------------------------------------------------------
(* The glyph module: a glyph is loaded or built, then used *)

Init == InitLoad \/ InitSave

Next == LoadFillInLibs \/ CollectLibs \/ SaveGlyph

Spec == Init /\ [][Next]_vars

----------------------------------------------------------------------------
(* What the claims speak of *)

Vec(o) == IF IsSome(o) THEN Unwrap(o) ELSE << >>

ContoursOf(g) == IF IsSome(g.outline) THEN Unwrap(g.outline).contours ELSE << >>

ComponentsOf(g) == IF IsSome(g.outline) THEN Unwrap(g.outline).components ELSE << >>

\* The sub-objects of s as records of kind, identifier and lib.
Listed(kind, s) ==
    [i \in 1..Len(s) |-> [kind |-> kind, identifier |-> s[i].identifier, lib |-> s[i].lib]]

\* The points of all contours, contour after contour.
RECURSIVE AllPoints(_)
AllPoints(contours) ==
    IF contours = << >> THEN << >>
    ELSE Listed("point", contours[1].points) \o AllPoints(Tail(contours))

\* Each contour followed by its own points.
RECURSIVE ContoursWithPoints(_)
ContoursWithPoints(contours) ==
    IF contours = << >> THEN << >>
    ELSE Listed("contour", <<contours[1]>>) \o Listed("point", contours[1].points)
         \o ContoursWithPoints(Tail(contours))

\* The sub-objects in the order the specification states: anchors,
\* guidelines, contours, contour points, components.
StatedOrder(g) ==
    Listed("anchor", Vec(g.anchors)) \o Listed("guideline", Vec(g.guidelines))
    \o Listed("contour", ContoursOf(g)) \o AllPoints(ContoursOf(g))
    \o Listed("component", ComponentsOf(g))

\* The sub-objects with every contour followed by its own points: anchors,
\* guidelines, contour 1, its points, contour 2, its points, .., components.
NestedOrder(g) ==
    Listed("anchor", Vec(g.anchors)) \o Listed("guideline", Vec(g.guidelines))
    \o ContoursWithPoints(ContoursOf(g))
    \o Listed("component", ComponentsOf(g))

HasObjectLibs(g) == IsSome(g.lib) /\ ContainsKey(Unwrap(g.lib), PUBLIC_OBJECT_LIBS_KEY)

\* The value under public.objectLibs, for a glyph that has one.
ObjectLibsValue(g) == Unwrap(Get(Unwrap(g.lib), PUBLIC_OBJECT_LIBS_KEY))

\* The entries of public.objectLibs, when it is a dictionary.
ObjectLibsEntries(g) ==
    IF HasObjectLibs(g) /\ ObjectLibsValue(g).kind = "Dictionary"
    THEN ObjectLibsValue(g).dict
    ELSE << >>

\* The entries whose value is a dictionary.
DictEntries(g) ==
    {e \in {ObjectLibsEntries(g)[i] : i \in DOMAIN ObjectLibsEntries(g)} :
        e.value.kind = "Dictionary"}

\* The positions of s that carry the identifier id.
Carriers(s, id) == {i \in DOMAIN s : s[i].identifier = Some(id)}

\* The least position of s that carries id, 0 when there is none.
FirstCarrier(s, id) ==
    IF Carriers(s, id) = {} THEN 0
    ELSE CHOOSE i \in Carriers(s, id) : \A j \in Carriers(s, id) : i <= j

\* Going from the sub-objects before to the sub-objects after, every entry
\* has been given to the first carrier of its key and no other lib differs.
GivenToFirst(before, after, entries) ==
    /\ Len(after) = Len(before)
    /\ \A j \in DOMAIN before :
         /\ after[j].kind = before[j].kind
         /\ after[j].lib =
              IF \E e \in entries : FirstCarrier(before, e.key) = j
              THEN Some((CHOOSE e \in entries : FirstCarrier(before, e.key) = j).value.dict)
              ELSE before[j].lib

Filled == op = "fill_in_libs"

FilledOk == Filled /\ result = "Ok"

----------------------------------------------------------------------------
(* Claims about Glyph::fill_in_libs, checked under SpecLoad *)

\* C1: whenever fill_in_libs returns Ok, the glyph's lib does not contain
\* the key public.objectLibs.
C1_NoObjectLibsAfterLoad == FilledOk => ~HasObjectLibs(glyph)

\* A load that found the key, with a dictionary of two entries, and
\* returned Ok.
C1_Witness ==
    /\ FilledOk
    /\ HasObjectLibs(old)
    /\ Len(ObjectLibsEntries(old)) = 2
    /\ ~HasObjectLibs(glyph)

\* C2: after fill_in_libs succeeds, for every entry (id, dictionary) whose
\* id is the identifier of some sub-object, a sub-object with identifier id
\* has that dictionary as its lib.
C2_MatchedEntryDelivered ==
    FilledOk =>
        \A e \in DictEntries(old) :
            Carriers(NestedOrder(old), e.key) # {} =>
                \E j \in Carriers(NestedOrder(glyph), e.key) :
                    NestedOrder(glyph)[j].lib = Some(e.value.dict)

\* A successful load in which a component and a contour point each received
\* the dictionary of their entry, replacing a lib the component had.
C2_Witness ==
    /\ FilledOk
    /\ \E j, k \in DOMAIN NestedOrder(old) :
         /\ NestedOrder(old)[j].kind = "component"
         /\ NestedOrder(old)[j].identifier = Some("id-1")
         /\ NestedOrder(old)[j].lib = Some(NoteLib("prior"))
         /\ NestedOrder(glyph)[j].lib = Some(NoteLib("id-1"))
         /\ NestedOrder(old)[k].kind = "point"
         /\ NestedOrder(old)[k].identifier = Some("id-2")
         /\ NestedOrder(glyph)[k].lib = Some(NoteLib("id-2"))

Orphans(g) == {e \in DictEntries(g) : Carriers(NestedOrder(g), e.key) = {}}

\* Some value that fill_in_libs requires to be a dictionary is none.
SomeValueNoDictionary(g) ==
    /\ HasObjectLibs(g)
    /\ \/ ObjectLibsValue(g).kind # "Dictionary"
       \/ \E i \in DOMAIN ObjectLibsEntries(g) :
            ObjectLibsEntries(g)[i].value.kind # "Dictionary"

\* C4: an entry whose id no sub-object carries is discarded silently:
\* fill_in_libs fails only when some value is no dictionary, and afterwards
\* the lib of every sub-object is the lib it had or the dictionary of an
\* entry for its own identifier.
C4_OrphanDiscarded ==
    Filled =>
        /\ result = "BadLib" => SomeValueNoDictionary(old)
        /\ Len(NestedOrder(glyph)) = Len(NestedOrder(old))
        /\ \A j \in DOMAIN NestedOrder(old) :
             \/ NestedOrder(glyph)[j].lib = NestedOrder(old)[j].lib
             \/ \E e \in DictEntries(old) :
                  /\ NestedOrder(old)[j].identifier = Some(e.key)
                  /\ NestedOrder(glyph)[j].lib = Some(e.value.dict)

\* A successful load of a glyph with sub-objects and an orphan entry, which
\* left every lib as it was.
C4_Witness ==
    /\ FilledOk
    /\ Orphans(old) # {}
    /\ Len(NestedOrder(old)) = MaxObjects
    /\ \A j \in DOMAIN NestedOrder(old) :
         NestedOrder(glyph)[j].lib = NestedOrder(old)[j].lib

\* C5: if the value under public.objectLibs is no dictionary, or the value
\* of one of its entries is no dictionary, fill_in_libs fails with BadLib.
C5_BadLib == (Filled /\ SomeValueNoDictionary(old)) => result = "BadLib"

\* A load that failed with BadLib on the second entry of the dictionary.
C5_Witness ==
    /\ Filled
    /\ result = "BadLib"
    /\ Len(ObjectLibsEntries(old)) = 2
    /\ ObjectLibsEntries(old)[1].value.kind = "Dictionary"
    /\ ObjectLibsEntries(old)[2].value.kind # "Dictionary"

----------------------------------------------------------------------------
(* Claims about Glyph::save and Glyph::libs_to_object_libs, checked under  *)
(* SpecSave                                                                *)

Saved == op = "save"

Collected == op = "libs_to_object_libs"

\* C6: save of a glyph whose format is not V2 returns the downgrade error
\* and writes no file; only V2 glyphs are ever written.
C6_NoDowngrade ==
    glyph.format # "V2" =>
        /\ disk = None
        /\ Saved => result = "DowngradeUnsupported"

\* A save of a V1 glyph, with a lib to emit, that was refused.
C6_Witness ==
    /\ Saved
    /\ glyph.format = "V1"
    /\ ~HasObjectLibs(glyph)
    /\ \E j \in DOMAIN NestedOrder(glyph) :
         IsSome(NestedOrder(glyph)[j].lib) /\ IsSome(NestedOrder(glyph)[j].identifier)
    /\ result = "DowngradeUnsupported"
    /\ disk = None

\* C7: save of a V2 glyph whose lib already contains the key
\* public.objectLibs fails with PreexistingPublicObjectLibsKey and writes no
\* file.
C7_PreexistingKey ==
    (glyph.format = "V2" /\ HasObjectLibs(glyph)) =>
        /\ disk = None
        /\ Saved => result = "PreexistingPublicObjectLibsKey"

\* A save of a V2 glyph with the key in its lib, that was refused.
C7_Witness ==
    /\ Saved
    /\ glyph.format = "V2"
    /\ HasObjectLibs(glyph)
    /\ result = "PreexistingPublicObjectLibsKey"
    /\ disk = None

\* Some sub-object has a lib and no identifier.
LibWithoutIdentifier(g) ==
    \E j \in DOMAIN NestedOrder(g) :
        IsSome(NestedOrder(g)[j].lib) /\ NestedOrder(g)[j].identifier = None

\* C8: the collection of the sub-object libs completes for every glyph,
\* also when a sub-object has a lib and no identifier.
C8_CollectionCompletes == Collected => result = "Ok"

\* The identifiers under which the sub-objects of g have a lib.
IdentifiersWithLib(g) ==
    {Unwrap(NestedOrder(g)[j].identifier) :
        j \in {i \in DOMAIN NestedOrder(g) :
                 IsSome(NestedOrder(g)[i].lib) /\ IsSome(NestedOrder(g)[i].identifier)}}

\* The last sub-object of g, in the order of the traversal, that carries id
\* and has a lib.
LastWithLib(g, id) ==
    LET S == {j \in Carriers(NestedOrder(g), id) : IsSome(NestedOrder(g)[j].lib)}
    IN NestedOrder(g)[CHOOSE j \in S : \A k \in S : k <= j]

\* No two sub-objects of g carry the same identifier.
UniqueIdentifiers(g) ==
    \A id \in Identifiers : Cardinality(Carriers(NestedOrder(g), id)) <= 1

\* C9, as stated (here for glyphs whose identifiers are unique): the
\* collected dictionary has an entry for a sub-object exactly when that
\* sub-object has a non-empty lib.
C9_EntryIffNonEmptyLib ==
    (Collected /\ result = "Ok" /\ UniqueIdentifiers(glyph)) =>
        \A j \in DOMAIN NestedOrder(glyph) :
            LET o == NestedOrder(glyph)[j]
            IN (IsSome(o.identifier) /\ ContainsKey(Unwrap(plist), Unwrap(o.identifier)))
               <=> (IsSome(o.lib) /\ Unwrap(o.lib) # EmptyLib)

\* C9, amended: the collection panics exactly when some sub-object has a lib
\* and no identifier; otherwise the dictionary has an entry under an
\* identifier exactly when a sub-object with that identifier has a lib,
\* empty or not, and the entry holds the lib of the last such sub-object.
C9_EntryIffLib ==
    Collected =>
        /\ result = "panic" <=> LibWithoutIdentifier(glyph)
        /\ result = "Ok" =>
             /\ Keys(Unwrap(plist)) = IdentifiersWithLib(glyph)
             /\ \A id \in IdentifiersWithLib(glyph) :
                  Get(Unwrap(plist), id) =
                      Some(DictionaryValue(Unwrap(LastWithLib(glyph, id).lib)))

\* A collection that made an entry for an empty lib and none for a
\* sub-object without a lib.
C9_Witness ==
    /\ Collected
    /\ result = "Ok"
    /\ \E j, k \in DOMAIN NestedOrder(glyph) :
         /\ NestedOrder(glyph)[j].lib = Some(EmptyLib)
         /\ NestedOrder(glyph)[j].identifier = Some("id-1")
         /\ NestedOrder(glyph)[k].lib = None
         /\ NestedOrder(glyph)[k].identifier = Some("id-2")
    /\ Keys(Unwrap(plist)) = {"id-1"}
    /\ Get(Unwrap(plist), "id-1") = Some(DictionaryValue(EmptyLib))

\* C10: the dictionary built for a save is used for emission only: after
\* save returns, the lib of the glyph is the lib it was and still does not
\* contain the key public.objectLibs.
C10_EmittedLibNotRetained ==
    (Saved /\ result # "panic" /\ ~HasObjectLibs(old)) =>
        /\ ~HasObjectLibs(glyph)
        /\ glyph.lib = old.lib

\* A save that wrote a lib with two entries under public.objectLibs and
\* left the glyph without the key.
C10_Witness ==
    /\ Saved
    /\ result = "Ok"
    /\ IsSome(disk)
    /\ IsSome(Unwrap(disk).lib)
    /\ ContainsKey(Unwrap(Unwrap(disk).lib), PUBLIC_OBJECT_LIBS_KEY)
    /\ Len(Unwrap(Get(Unwrap(Unwrap(disk).lib), PUBLIC_OBJECT_LIBS_KEY)).dict) = 2
    /\ ~HasObjectLibs(glyph)

----------------------------------------------------------------------------
(* The round trip, checked under SpecRoundTrip *)

\* The libs of the sub-objects of g, in the nested order.
LibsOf(g) == [j \in DOMAIN NestedOrder(g) |-> NestedOrder(g)[j].lib]

\* The identifiers of the sub-objects of g, in the nested order.
IdentifiersOf(g) == [j \in DOMAIN NestedOrder(g) |-> NestedOrder(g)[j].identifier]

\* C11: for any glyph, collecting the libs of the sub-objects and then
\* redistributing the collected dictionary into the copy of the glyph with
\* the same identifiers and no libs completes and gives every sub-object
\* the lib it had before.
C11_RoundTrip ==
    op = "round_trip" => (result = "Ok" /\ LibsOf(glyph) = LibsOf(old))

----------------------------------------------------------------------------
(* The sub-objects and their methods, checked under SpecEdit *)

\* No identifier is carried by two sub-objects of g.
DistinctIdentifiers(g) ==
    \A i, j \in DOMAIN NestedOrder(g) :
        (i # j /\ NestedOrder(g)[i].identifier # None)
            => NestedOrder(g)[i].identifier # NestedOrder(g)[j].identifier

\* C12: in every glyph reachable through Anchor::new, Contour::new,
\* ContourPoint::new, Component::new, replace_identifier and replace_lib,
\* the identifiers are unique across the sub-objects.
C12_IdentifiersUnique == DistinctIdentifiers(glyph)

\* C15: replace_lib on an anchor, contour, contour point or component
\* stores the given lib and returns the lib the object had before (None if
\* it had none); it sets a newly generated identifier exactly when the
\* object had none, and leaves an identifier that is there unchanged.
C15_ReplaceLib ==
    op = "replace_lib" =>
        LET before == ObjectAt(old, args.path)
            after  == ObjectAt(glyph, args.path)
        IN /\ after.lib = args.lib
           /\ plist = before.lib
           /\ before.identifier = None =>
                (IsSome(after.identifier) /\ Unwrap(after.identifier) \in Uuids)
           /\ before.identifier # None => after.identifier = before.identifier

\* replace_lib has been called on a contour point that had a lib and no
\* identifier.
C15_Witness ==
    /\ op = "replace_lib"
    /\ args.path[1] = "point"
    /\ ObjectAt(old, args.path).identifier = None
    /\ IsSome(ObjectAt(old, args.path).lib)
    /\ ObjectAt(old, args.path).lib # args.lib

\* C16: take_lib, lib, lib_mut and fill_in_libs leave the identifier of
\* every anchor, guideline, contour, point and component unchanged; a
\* sub-object without identifier gets a generated one only in a call of
\* replace_lib, together with the lib given.
C16_IdentifiersKept ==
    /\ op \in {"take_lib", "lib", "lib_mut", "fill_in_libs"}
          => IdentifiersOf(glyph) = IdentifiersOf(old)
    /\ \A j \in DOMAIN NestedOrder(old) :
          (/\ NestedOrder(old)[j].identifier = None
           /\ NestedOrder(glyph)[j].identifier \in {Some(u) : u \in Uuids})
              => (op = "replace_lib" /\ NestedOrder(glyph)[j].lib = args.lib)

\* fill_in_libs has given a lib to a sub-object of a glyph in which another
\* sub-object has no identifier.
C16_Witness ==
    /\ FilledOk
    /\ LibsOf(glyph) # LibsOf(old)
    /\ \E j \in DOMAIN NestedOrder(glyph) : NestedOrder(glyph)[j].identifier = None

----------------------------------------------------------------------------
(* Sub-objects that start with no lib or with an identifier *)

\* Every sub-object of g that has a lib has an identifier.
EveryLibIdentified(g) ==
    \A j \in DOMAIN NestedOrder(g) :
        IsSome(NestedOrder(g)[j].lib) => IsSome(NestedOrder(g)[j].identifier)

InitEditIdentified == InitEdit /\ EveryLibIdentified(glyph)

SpecEditIdentified == InitEditIdentified /\ [][NextEdit]_vars

\* C20: for sub-objects that start with no lib or with an identifier, after
\* any sequence of replace_lib, take_lib and replace_identifier calls every
\* sub-object that has a lib has an identifier, and no call removes an
\* identifier that is present.
C20_LibImpliesIdentifier ==
    /\ EveryLibIdentified(glyph)
    /\ \A j \in DOMAIN NestedOrder(old) :
          IsSome(NestedOrder(old)[j].identifier)
              => IsSome(NestedOrder(glyph)[j].identifier)

\* A sub-object that got its identifier from replace_lib has had its lib
\* taken and its identifier replaced since.
C20_Witness ==
    /\ op = "replace_identifier"
    /\ IsSome(output) /\ Unwrap(output) \in Uuids
    /\ ObjectAt(glyph, args.path).lib = None
    /\ ObjectAt(glyph, args.path).identifier = args.identifier

----------------------------------------------------------------------------
(* Contours, checked under SpecContour *)

\* The types of the points of the contour.
TypesOf(contour) == [i \in DOMAIN contour.points |-> contour.points[i].typ]

\* The number of off-curve points of t from position i on, up to the next
\* point that is not off-curve or the end of t.
RECURSIVE RunLength(_, _)
RunLength(t, i) ==
    IF i > Len(t) \/ t[i] # "OffCurve" THEN 0 ELSE 1 + RunLength(t, i + 1)

\* An off-curve run of t that starts at position i is legal: it is followed
\* by a Curve or QCurve and has at most two points before a Curve.  In a
\* contour that does not start with a Move the point after the last one is
\* the first one.
LegalRun(t, i) ==
    LET len  == RunLength(t, i)
        wrap == RunLength(t, 1)
        next == IF i + len <= Len(t) THEN i + len ELSE wrap + 1
    IN IF i + len > Len(t) /\ t[1] = "Move" THEN FALSE
       ELSE IF next > Len(t) THEN TRUE
       ELSE /\ t[next] \in {"Curve", "QCurve"}
            /\ t[next] = "Curve" =>
                 (IF i + len <= Len(t) THEN len ELSE len + wrap) <= 2

\* The contour invariant: a Move only as the first point, every off-curve
\* run legal, no off-curve point at the end of a contour that starts with a
\* Move.
ContourInvariant(contour) ==
    LET t == TypesOf(contour)
    IN /\ \A i \in DOMAIN t : t[i] = "Move" => i = 1
       /\ \A i \in DOMAIN t :
            (t[i] = "OffCurve" /\ (i = 1 \/ t[i - 1] # "OffCurve")) => LegalRun(t, i)
       /\ (t # << >> /\ t[1] = "Move") => t[Len(t)] # "OffCurve"

\* C13: every Contour value satisfies the contour invariant.
C13_ContourInvariant ==
    \A c \in DOMAIN ContoursOf(glyph) : ContourInvariant(ContoursOf(glyph)[c])

\* C14: Contour::is_closed returns false exactly when the contour has a
\* first point and the type of that point is Move; it returns true
\* otherwise, also for a contour without points.
C14_IsClosed ==
    op = "is_closed" =>
        LET points == ObjectAt(old, args.path).points
        IN output = ~(Len(points) > 0 /\ points[1].typ = "Move")

\* is_closed has been called on a contour of several points that starts
\* with a Move.
C14_Witness ==
    /\ op = "is_closed"
    /\ Len(ObjectAt(old, args.path).points) > 1
    /\ ObjectAt(old, args.path).points[1].typ = "Move"
    /\ output = FALSE

----------------------------------------------------------------------------
(* File names, checked under SpecFileName *)

Named == op = "default_file_name_for_glyph_name"

\* The characters that stand for the character c of a glyph name, c being
\* the first character of the name or not.
Image(c, first) ==
    IF c = 46 /\ first THEN <<95>>
    ELSE IF c < 32 \/ c = 127
            \/ c \in {92, 42, 43, 47, 58, 60, 62, 63, 91, 93, 124} THEN <<95>>
    ELSE IF c \in 65..90 THEN <<c, 95>>
    ELSE <<c>>

\* The sequences pieces[from], .., pieces[to] one after the other.
RECURSIVE Joined(_, _, _)
Joined(pieces, from, to) ==
    IF from > to THEN << >>
    ELSE IF from = to THEN pieces[from]
    ELSE LET mid == (from + to) \div 2
         IN Joined(pieces, from, mid) \o Joined(pieces, mid + 1, to)

\* The images of the characters of name, one after the other.
Images(name) ==
    Joined([i \in DOMAIN name |-> Image(name[i], i = 1)], 1, Len(name))

\* The bytes of the characters of chars.
Encoded(chars) ==
    Joined([i \in DOMAIN chars |-> Utf8(chars[i])], 1, Len(chars))

\* string ends with ".glif".
EndsInGlif(string) ==
    /\ Len(string) >= 5
    /\ SubSeq(string, Len(string) - 4, Len(string)) = <<46, 103, 108, 105, 102>>

\* string without its last five bytes.
Stem(string) == SubSeq(string, 1, Len(string) - 5)

\* The number of characters that begin in the bytes of string: the bytes
\* 10xxxxxx continue a character.
Begun(string) == Cardinality({i \in DOMAIN string : string[i] \notin 128..191})

\* string is the encoding of the first characters of chars.
CutAtCharacter(string, chars) ==
    /\ Begun(string) <= Len(chars)
    /\ string = Encoded(SubSeq(chars, 1, Begun(string)))

\* C17: default_file_name_for_glyph_name returns a name of at most 255
\* bytes that ends in ".glif"; when the escaped name with the suffix would
\* be longer, what stands before the suffix is the escaped name cut at a
\* character boundary.
C17_AtMost255Bytes ==
    Named =>
        LET chars == Images(args.name)
        IN /\ Len(output) <= 255
           /\ EndsInGlif(output)
           /\ Len(Encoded(chars)) + 5 > 255 => CutAtCharacter(Stem(output), chars)

\* The name returned has been cut inside a character of several bytes: the
\* whole character is left out, and the name is shorter than 255 bytes.
C17_Witness ==
    /\ Named
    /\ Len(Encoded(Images(args.name))) + 5 > 255
    /\ Len(output) < 255
    /\ CutAtCharacter(Stem(output), Images(args.name))
    /\ Images(args.name)[Begun(Stem(output)) + 1] > 127

\* C18: for a name that is not truncated the result is the images of its
\* characters followed by ".glif": '_' for a '.' in first position, for a
\* control character, for 0x7F and for \ * + / : < > ? [ ] |; X_ for an
\* ASCII uppercase X; the character itself otherwise.  "A" gives "A_.glif",
\* ".notdef" gives "_notdef.glif", "a*b" gives "a_b.glif".
C18_PerCharacterImages ==
    Named =>
        /\ Len(Encoded(Images(args.name))) + 5 <= 255 =>
              output = Encoded(Images(args.name)) \o <<46, 103, 108, 105, 102>>
        /\ args.name = <<65>> => output = <<65, 95, 46, 103, 108, 105, 102>>
        /\ args.name = <<46, 110, 111, 116, 100, 101, 102>> =>
              output = <<95, 110, 111, 116, 100, 101, 102, 46, 103, 108, 105, 102>>
        /\ args.name = <<97, 42, 98>> => output = <<97, 95, 98, 46, 103, 108, 105, 102>>

\* A short name with an uppercase letter first and a '.' after it has been
\* given its file name.
C18_Witness ==
    /\ Named
    /\ Len(args.name) = 2
    /\ args.name[1] = 65
    /\ args.name[2] = 46
    /\ output = <<65, 95, 46, 46, 103, 108, 105, 102>>

----------------------------------------------------------------------------
(* The file names of a layer, checked under SpecLayer *)

\* string is file_name with '#' and decimal digits, not starting with 0,
\* before the suffix ".glif".
Numbered(string, file_name) ==
    LET stem == Len(file_name) - 5
    IN /\ Len(string) > Len(file_name) + 1
       /\ SubSeq(string, 1, stem) = SubSeq(file_name, 1, stem)
       /\ string[stem + 1] = 35
       /\ string[stem + 2] \in 49..57
       /\ \A i \in (stem + 2)..(Len(string) - 5) : string[i] \in 48..57
       /\ EndsInGlif(string)

\* C19: within a layer distinct glyph names have distinct file names; a
\* glyph has the file name default_file_name_for_glyph_name gives to its
\* name unless a glyph before it has that file name, and then it has that
\* name with a numeric suffix.
C19_DistinctFileNames ==
    /\ \A i, j \in DOMAIN contents :
          i # j => contents[i].file_name # contents[j].file_name
    /\ \A j \in DOMAIN contents :
          LET file_name == DefaultFileNameForGlyphName(contents[j].name)
          IN IF \E i \in 1..(j - 1) : contents[i].file_name = file_name
             THEN Numbered(contents[j].file_name, file_name)
             ELSE contents[j].file_name = file_name

\* The layer has three glyphs: the names of the first two have one default
\* file name, and the default file name of the third is the numbered one
\* that the second was given.
C19_Witness ==
    /\ Len(contents) = 3
    /\ DefaultFileNameForGlyphName(contents[1].name)
          = DefaultFileNameForGlyphName(contents[2].name)
    /\ DefaultFileNameForGlyphName(contents[3].name) = contents[2].file_name

\* ---------------------------------------------------------------------
\* C21
\* ---------------------------------------------------------------------

\* The sub-objects of s with their libs blanked: what is left is their
\* number, their order and every field but the lib.
WithoutLibs(s) == [i \in DOMAIN s |-> [s[i] EXCEPT !.lib = None]]

ContoursWithoutLibs(s) ==
    [c \in DOMAIN s |->
        [s[c] EXCEPT !.lib = None, !.points = WithoutLibs(s[c].points)]]

\* The entries of the glyph lib under keys other than public.objectLibs.
OtherEntries(g) ==
    IF IsSome(g.lib)
    THEN {e \in {Unwrap(g.lib)[i] : i \in DOMAIN Unwrap(g.lib)} :
            e.key # PUBLIC_OBJECT_LIBS_KEY}
    ELSE {}

\* Everything of the glyph but the key public.objectLibs and the libs of
\* its sub-objects.
Frame(g) ==
    [name       |-> g.name,
     format     |-> g.format,
     advance    |-> g.advance,
     codepoints |-> g.codepoints,
     note       |-> g.note,
     image      |-> g.image,
     has_lib    |-> IsSome(g.lib),
     lib        |-> OtherEntries(g),
     anchors    |-> IF IsSome(g.anchors) THEN Some(WithoutLibs(Unwrap(g.anchors))) ELSE None,
     guidelines |-> IF IsSome(g.guidelines) THEN Some(WithoutLibs(Unwrap(g.guidelines))) ELSE None,
     outline    |-> IF IsSome(g.outline)
                    THEN Some([contours   |-> ContoursWithoutLibs(Unwrap(g.outline).contours),
                               components |-> WithoutLibs(Unwrap(g.outline).components)])
                    ELSE None]

\* The sub-objects of g, by place in the nested order, whose identifier is
\* the key of no entry of public.objectLibs.
Unmatched(g) ==
    {j \in DOMAIN NestedOrder(g) :
        \A i \in DOMAIN ObjectLibsEntries(g) :
            NestedOrder(g)[j].identifier # Some(ObjectLibsEntries(g)[i].key)}

\* C21: fill_in_libs changes nothing but the presence of the key
\* public.objectLibs in the glyph lib and the libs of matched sub-objects.
\* A glyph with no lib, or whose lib lacks the key, comes back unchanged
\* with Ok.  In every case, Ok or BadLib, the entries of the glyph lib
\* under other keys, the name, format, advance, codepoints, note and image,
\* and the number, order, identifiers, coordinates and types of all
\* sub-objects are what they were, and a sub-object whose identifier is no
\* key of public.objectLibs keeps its lib.
C21_Frame ==
    Filled =>
        /\ ~HasObjectLibs(old) => (glyph = old /\ result = "Ok")
        /\ Frame(glyph) = Frame(old)
        /\ \A j \in Unmatched(old) : NestedOrder(glyph)[j].lib = NestedOrder(old)[j].lib

\* A load that removed the key and delivered a lib, from a glyph whose lib
\* has another key and which has a sub-object with a lib that no entry
\* names.
C21_Witness ==
    /\ Filled
    /\ HasObjectLibs(old)
    /\ ~HasObjectLibs(glyph)
    /\ OtherEntries(old) # {}
    /\ LibsOf(glyph) # LibsOf(old)
    /\ \E j \in Unmatched(old) : IsSome(NestedOrder(old)[j].lib)

\* The same frame for a glyph that had nothing to fill in.
C21_WitnessNoKey ==
    /\ Filled
    /\ ~HasObjectLibs(old)
    /\ OtherEntries(old) # {}
    /\ \E j \in DOMAIN NestedOrder(old) : IsSome(NestedOrder(old)[j].lib)

\* ---------------------------------------------------------------------
\* C22
\* ---------------------------------------------------------------------

\* The place of the first entry of public.objectLibs whose value is no
\* dictionary, one past the last entry when there is none.
Offending(g) ==
    LET bad == {i \in DOMAIN ObjectLibsEntries(g) :
                   ObjectLibsEntries(g)[i].value.kind # "Dictionary"}
    IN IF bad = {} THEN Len(ObjectLibsEntries(g)) + 1
       ELSE CHOOSE i \in bad : \A k \in bad : i <= k

\* The entries that precede the offending entry in the dictionary's order.
Preceding(g) == {ObjectLibsEntries(g)[i] : i \in 1..(Offending(g) - 1)}

FilledBadLib == Filled /\ result = "BadLib"

\* C22: when fill_in_libs fails with BadLib, the key public.objectLibs is
\* gone from the glyph lib and every entry that precedes the offending
\* entry in the dictionary's order has been given to its sub-object, the
\* first carrier of its key; the libs of all other sub-objects are what
\* they were, and the glyph is not the glyph the call started with.
C22_NoRollback ==
    FilledBadLib =>
        /\ HasObjectLibs(old)
        /\ ~HasObjectLibs(glyph)
        /\ GivenToFirst(NestedOrder(old), NestedOrder(glyph), Preceding(old))
        /\ glyph # old

\* A failed load in which an entry before the offending one changed the
\* lib of a sub-object.
C22_Witness ==
    /\ FilledBadLib
    /\ Offending(old) > 1
    /\ \E e \in Preceding(old) : FirstCarrier(NestedOrder(old), e.key) # 0
    /\ LibsOf(glyph) # LibsOf(old)

\* ---------------------------------------------------------------------
\* C23
\* ---------------------------------------------------------------------

\* The byte b with an ASCII uppercase letter made lowercase.
FoldByte(b) == IF b \in 65..90 THEN b + 32 ELSE b

\* The string with its ASCII letters made lowercase: two strings are equal
\* when compared case-insensitively if their folded strings are equal.
Folded(string) == [i \in DOMAIN string |-> FoldByte(string[i])]

\* Two different names of one length that differ in nothing but the case of
\* ASCII letters.
DifferOnlyInCase(a, b) ==
    /\ a # b
    /\ Len(a) = Len(b)
    /\ \A i \in DOMAIN a : a[i] = b[i] \/ (FoldByte(a[i]) = FoldByte(b[i]) /\ a[i] < 128 /\ b[i] < 128)

\* The escaped name fits before ".glif" within 255 bytes: nothing is cut.
Untruncated(name) == Len(Encoded(Images(name))) + 5 <= 255

\* Two names have been given to default_file_name_for_glyph_name.
NamedPair == op = "default_file_name_for_glyph_name" /\ Len(contents) = 2

\* C23: two glyph names that differ only in the case of ASCII letters, and
\* that are short enough not to be truncated, are not mapped by
\* default_file_name_for_glyph_name to file names that are equal when
\* compared case-insensitively.
C23_CaseInsensitiveDistinct ==
    NamedPair =>
        ((/\ DifferOnlyInCase(contents[1].name, contents[2].name)
          /\ Untruncated(contents[1].name)
          /\ Untruncated(contents[2].name))
         => Folded(contents[1].file_name) # Folded(contents[2].file_name))

\* Two long names that are not truncated, differ in case and have file
\* names of one length, as "..Aa" and "..aA".
C23_Witness ==
    /\ NamedPair
    /\ DifferOnlyInCase(contents[1].name, contents[2].name)
    /\ Untruncated(contents[1].name)
    /\ Untruncated(contents[2].name)
    /\ Len(contents[1].name) > 200
    /\ Len(contents[1].file_name) = Len(contents[2].file_name)

====
